---- MODULE Spec2Model ----
(***************************************************************************)
(* A model of the IPython extension jupyter_watchdog                       *)
(* (src/src/jupyter_watchdog/watchdog.py): the NotifyMagics object, the    *)
(* host's execution of cells around it (before-unit / after-unit events),  *)
(* and the background webhook threads it starts.                           *)
(*                                                                         *)
(* Text (magic arguments, URLs) is a sequence of one-character strings, so *)
(* that strip(), lower(), startswith() and float() are computed.  Time is  *)
(* a discrete clock of ticks; a float is a record that is either a number  *)
(* of ticks or NaN.                                                        *)
(***************************************************************************)
EXTENDS Integers, Sequences, FiniteSets, Bags, TLC

\* ------------------------------------------------------------------ bounds
\* The clock reading when the extension is loaded (time.time() is seconds
\* since 1970: far larger than any threshold or cell duration).
Epoch == 4
\* The clock stops advancing at Epoch + MaxElapsed.
MaxElapsed == 3
\* The longest single piece of cell code, in ticks.
MaxDur == 2
\* Nesting of run_cell calls (a cell, the cell %%notify wraps, ...).
MaxDepth == 2
MaxTime == Epoch + MaxElapsed

\* The background sends that may be in flight when the user runs a cell.
MaxSends == 1

\* -------------------------------------------------------------------- text
Whitespace == {" ", "\t"}

UpperCase == <<"A", "B", "C", "D", "E", "F", "G", "H", "I", "J", "K", "L", "M",
               "N", "O", "P", "Q", "R", "S", "T", "U", "V", "W", "X", "Y", "Z">>

LowerCase == <<"a", "b", "c", "d", "e", "f", "g", "h", "i", "j", "k", "l", "m",
               "n", "o", "p", "q", "r", "s", "t", "u", "v", "w", "x", "y", "z">>

Digits == <<"0", "1", "2", "3", "4", "5", "6", "7", "8", "9">>

\* str.strip(): drop leading and trailing whitespace.
RECURSIVE lstrip(_)
lstrip(s) ==
    IF s # <<>> /\ Head(s) \in Whitespace THEN lstrip(Tail(s)) ELSE s

RECURSIVE rstrip(_)
rstrip(s) ==
    IF s # <<>> /\ s[Len(s)] \in Whitespace
    THEN rstrip(SubSeq(s, 1, Len(s) - 1))
    ELSE s

strip(s) == rstrip(lstrip(s))

\* str.lower(), one character.
lower_char(c) ==
    IF \E i \in DOMAIN UpperCase : UpperCase[i] = c
    THEN LowerCase[CHOOSE i \in DOMAIN UpperCase : UpperCase[i] = c]
    ELSE c

lower(s) == [i \in DOMAIN s |-> lower_char(s[i])]

\* str.startswith(prefix).
startswith(s, prefix) ==
    /\ Len(s) >= Len(prefix)
    /\ SubSeq(s, 1, Len(prefix)) = prefix

\* ------------------------------------------------------------------ floats
Num(n) == [k |-> "num", v |-> n]
NaN == [k |-> "nan", v |-> 0]
ValueError == [k |-> "ValueError", v |-> 0]

\* IEEE comparisons: every comparison with NaN is false.
Gt(a, b) == a.k = "num" /\ b.k = "num" /\ a.v > b.v
Lt(a, b) == a.k = "num" /\ b.k = "num" /\ a.v < b.v
Le(a, b) == a.k = "num" /\ b.k = "num" /\ a.v <= b.v

IsDigit(c) == \E i \in DOMAIN Digits : Digits[i] = c

DigitValue(c) == (CHOOSE i \in DOMAIN Digits : Digits[i] = c) - 1

RECURSIVE DecimalValue(_)
DecimalValue(s) ==
    IF s = <<>> THEN 0
    ELSE 10 * DecimalValue(SubSeq(s, 1, Len(s) - 1)) + DigitValue(s[Len(s)])

\* float(text) on the texts of the model: an optional sign, then either
\* digits (a whole number of ticks) or "nan" in any case; anything else
\* raises ValueError.  float() ignores surrounding whitespace itself.
ParseFloat(text) ==
    LET t == strip(text)
        signed == t # <<>> /\ Head(t) \in {"-", "+"}
        negative == t # <<>> /\ Head(t) = "-"
        body == IF signed THEN Tail(t) ELSE t
    IN  IF body # <<>> /\ \A i \in DOMAIN body : IsDigit(body[i])
        THEN Num(IF negative THEN 0 - DecimalValue(body) ELSE DecimalValue(body))
        ELSE IF lower(body) = <<"n", "a", "n">> THEN NaN
        ELSE ValueError

\* -------------------------------------------------- Optional[str] values
None == [some |-> FALSE, s |-> <<>>]
Str(s) == [some |-> TRUE, s |-> s]

\* Python truthiness of an Optional[str]: None and "" are falsy.
Truthy(u) == u.some /\ u.s # <<>>

\* ------------------------------------------------------------------ inputs
\* What the user types after %watchdog_auto.
AutoLines ==
    { <<>>, <<"a", "b", "c">>, <<"-", "1">>, <<"0">>, <<"1">>,
      <<" ", "2", " ">>, <<"n", "a", "n">> }

\* What the user types after %watchdog_setup.
SetupLines ==
    { <<>>, <<"f", "t", "p", ":", "/", "/", "x">>,
      <<" ", "h", "t", "t", "p", "s", ":", "/", "/", "x", " ">>,
      <<"h", "t", "t", "p", "x">> }

\* What the user types after %%notify.
NotifyLines ==
    { <<>>, <<"S", "Y", "S", "T", "E", "M", " ">>,
      <<" ", "D", "i", "s", "c", "o", "r", "d", " ">>,
      <<"w", "a", "t", "c", "h", "d", "o", "g">> }

\* os.environ.get('JUPYTER_WATCHDOG_WEBHOOK') at load time: unset, set to
\* the empty string, or set to a URL.
EnvValues == { None, Str(<<>>), Str(<<"h", "t", "t", "p", ":", "/", "/", "e">>) }

\* The host's ExecutionResult: success, error_in_exec ("none": no exception
\* object, "exc": an exception, "unprintable": an exception whose str()
\* raises) and result, the value of the cell.
Result(success, error, value) ==
    [success |-> success, error_in_exec |-> error, result |-> value]

\* The results a piece of cell code can end with.
CodeResults ==
    { Result(TRUE, "none", "v"), Result(FALSE, "exc", "None"),
      Result(FALSE, "none", "None"), Result(FALSE, "unprintable", "None") }

NoResult == Result(FALSE, "none", "unset")

\* ------------------------------------------------------------------- state
VARIABLES
    watchdog_threshold,      \* self.watchdog_threshold (a float)
    start_time,              \* self.start_time
    hooks_registered,        \* self._hooks_registered
    suppress_auto_watchdog,  \* self._suppress_auto_watchdog
    webhook_url,             \* self.webhook_url (Optional[str])
    callbacks,               \* shell.events: registrations of the two hooks
    now,                     \* the wall clock, time.time()
    stack,                   \* the run_cell calls in progress, innermost last
    threads,                 \* bag of started, unfinished request_task threads
    dispatched,              \* the notification the last step of the main
                             \* thread dispatched (NoNote: none)
    printed,                 \* the line the last step of the main thread
                             \* printed ("": none)
    posted                   \* the POST the last step made, if it was a step
                             \* of a background thread (NoPost: none)

vars == << watchdog_threshold, start_time, hooks_registered,
           suppress_auto_watchdog, webhook_url, callbacks, now, stack,
           threads, dispatched, printed, posted >>

session == << watchdog_threshold, start_time, hooks_registered,
              suppress_auto_watchdog, webhook_url, callbacks >>

\* ------------------------------------------- NotifyMagics: pure functions
\* A variant that adds the error line for every failed unit.
msg_lines_error_on_failure(result, duration) ==
    LET status == [f |-> "Status",
                   x |-> IF result.success THEN "Success" ELSE "Failure"]
        time == [f |-> "Time", x |-> duration]
    IN  IF ~result.success
        THEN << status, time, [f |-> "Error", x |-> result.error_in_exec] >>
        ELSE << status, time >>

\* _handle_notification, lines 120-140: the lines of msg_body.
msg_lines(result, duration) ==
    LET status == [f |-> "Status",
                   x |-> IF result.success THEN "Success" ELSE "Failure"]
        time == [f |-> "Time", x |-> duration]
        err_str == IF result.error_in_exec = "unprintable"
                   THEN "Unknown Error" ELSE "exc"
    IN  IF ~result.success /\ result.error_in_exec # "none"
        THEN << status, time, [f |-> "Error", x |-> err_str] >>
        ELSE << status, time >>

\* A variant that sends whatever the tag.
should_send_any_tag(url, notification_type) == Truthy(url)

\* _handle_notification, lines 146-149.
should_send_discord(url, notification_type) ==
    Truthy(url) /\ (notification_type = "discord" \/ notification_type = "watchdog")

\* _handle_notification: what one call does.  banner and browser count the
\* display() calls of _print_status and _send_browser_notification; started
\* is the number of threads _send_discord_request starts, each with its own
\* copy of the URL and the message.
handle_notification(result, duration, notification_type, url) ==
    LET body == msg_lines(result, duration)
        send == should_send_discord(url, notification_type)
    IN  [tag |-> notification_type,
         duration |-> duration,
         success |-> result.success,
         lines |-> body,
         banner |-> 1,
         browser |-> 1,
         started |-> IF send THEN 1 ELSE 0,
         url |-> url]

NoNote ==
    [tag |-> "none", duration |-> 0, success |-> FALSE, lines |-> <<>>,
     banner |-> 0, browser |-> 0, started |-> 0, url |-> None]

\* The thread _send_discord_request starts for a notification.
Thread(note) == [url |-> note.url.s, message |-> note.lines]

\* n copies of thread t, as a bag.
Copies(t, n) == IF n > 0 THEN [x \in {t} |-> n] ELSE EmptyBag

\* How the POST of request_task can end: a 2xx response, another status
\* (raise_for_status raises HTTPError), or no response at all (connection
\* error, timeout after 5 s).  Both failures are RequestExceptions.
Responses == { "2xx", "non-2xx", "network error" }

NoPost == [url |-> <<>>, message |-> <<>>, response |-> "none",
           logged |-> FALSE]

\* A variant that posts to the URL stored when the POST executes.
post_to_stored_url(t, stored, response) ==
    [url |-> stored.s, message |-> t.message, response |-> response,
     logged |-> response # "2xx"]

\* request_task, lines 108-113: the one POST of thread t, to the url and
\* with the message the thread was started with; a RequestException is
\* caught and logged.
post(t, stored, response) ==
    [url |-> t.url, message |-> t.message, response |-> response,
     logged |-> response # "2xx"]

\* A variant that tries again after a failed POST.
request_task_retries(ts, t, response) ==
    IF response = "2xx" THEN ts (-) SetToBag({t}) ELSE ts

\* request_task, lines 107-113: the function returns after the POST or
\* after the except clause, and thread t ends.
request_task_ends(ts, t, response) == ts (-) SetToBag({t})

\* A variant that waits for the thread it started (thread.join()).
thread_joined_after_start == TRUE

\* _send_discord_request, lines 115-116: the thread is started as a daemon
\* and not joined.
thread_joined == FALSE

\* The main thread is never waiting for a background send.
main_thread_runs == ~thread_joined \/ threads = EmptyBag

\* A variant without the two early returns.
post_hook_fires_unguarded(threshold, suppress, clock, start) ==
    Gt(Num(clock - start), threshold)

\* post_run_cell_hook, lines 159-166: does the hook dispatch?
post_hook_fires(threshold, suppress, clock, start) ==
    /\ ~Le(threshold, Num(0))
    /\ ~suppress
    /\ Gt(Num(clock - start), threshold)

\* A variant that passes the argument on as the tag (mode = args or 'system').
notify_mode_passthrough(line) ==
    LET args == lower(strip(line))
    IN  IF args = <<>> THEN "system"
        ELSE IF args = <<"d", "i", "s", "c", "o", "r", "d">> THEN "discord"
        ELSE IF args = <<"w", "a", "t", "c", "h", "d", "o", "g">> THEN "watchdog"
        ELSE "system"

\* notify, lines 233-239: the tag, and whether the warning is printed.
notify_mode(line) ==
    LET args == lower(strip(line))
    IN  IF args = <<"d", "i", "s", "c", "o", "r", "d">> THEN "discord" ELSE "system"

notify_warns(line) ==
    LET args == lower(strip(line))
    IN  /\ args # <<"d", "i", "s", "c", "o", "r", "d">>
        /\ args # <<>>
        /\ args # <<"s", "y", "s", "t", "e", "m">>

\* A variant without the check for an empty argument.
watchdog_setup_url_stores_empty(line, old) ==
    LET url == strip(line)
    IN  IF url # <<>> /\ ~startswith(url, <<"h", "t", "t", "p">>) THEN old
        ELSE Str(url)

\* watchdog_setup, lines 175-185: the stored URL after the call.
watchdog_setup_url(line, old) ==
    LET url == strip(line)
    IN  IF url = <<>> THEN old
        ELSE IF ~startswith(url, <<"h", "t", "t", "p">>) THEN old
        ELSE Str(url)

watchdog_setup_prints(line) ==
    LET url == strip(line)
    IN  IF url = <<>> THEN "usage"
        ELSE IF ~startswith(url, <<"h", "t", "t", "p">>) THEN "invalid url"
        ELSE "url updated"

\* shell.events.register / unregister of one hook on one event.
register(n) == n + 1
unregister(n) == IF n > 0 THEN n - 1 ELSE n

\* What watchdog_auto leaves behind: the two fields, the host's
\* registrations and the line printed.
AutoOutcome(threshold, registered, cbs, msg) ==
    [threshold |-> threshold, registered |-> registered, callbacks |-> cbs,
     printed |-> msg]

\* A variant without the _hooks_registered check: it registers the hooks
\* on every enable.
auto_enable_unchecked(seconds, registered, cbs) ==
    AutoOutcome(seconds, TRUE,
                [pre_run_cell |-> register(cbs.pre_run_cell),
                 post_run_cell |-> register(cbs.post_run_cell)],
                IF registered THEN "threshold updated" ELSE "enabled")

\* watchdog_auto, lines 210-217: seconds > 0 has been stored.
auto_enable(seconds, registered, cbs) ==
    IF ~registered
    THEN AutoOutcome(seconds, TRUE,
                     [pre_run_cell |-> register(cbs.pre_run_cell),
                      post_run_cell |-> register(cbs.post_run_cell)],
                     "enabled")
    ELSE AutoOutcome(seconds, registered, cbs, "threshold updated")

\* A variant that stores the threshold and leaves the hooks registered.
auto_disable_keeps_hooks(seconds, registered, cbs) ==
    AutoOutcome(seconds, registered, cbs, "disabled")

\* A variant without the _hooks_registered check: it unregisters on every
\* disable, and the host raises ValueError for a callback it does not hold.
auto_disable_unchecked(seconds, registered, cbs) ==
    AutoOutcome(seconds, FALSE,
                [pre_run_cell |-> unregister(cbs.pre_run_cell),
                 post_run_cell |-> unregister(cbs.post_run_cell)],
                IF cbs.pre_run_cell > 0 THEN "disabled" ELSE "ValueError")

\* watchdog_auto, lines 218-225: seconds that is not > 0 has been stored.
auto_disable(seconds, registered, cbs) ==
    IF registered
    THEN AutoOutcome(seconds, FALSE,
                     [pre_run_cell |-> unregister(cbs.pre_run_cell),
                      post_run_cell |-> unregister(cbs.post_run_cell)],
                     "disabled")
    ELSE AutoOutcome(seconds, registered, cbs, "already disabled")

\* watchdog_auto, lines 193-225.
watchdog_auto(line, threshold, registered, cbs) ==
    LET args == strip(line)
        seconds == ParseFloat(args)
    IN  IF args = <<>>
        THEN AutoOutcome(threshold, registered, cbs, "current threshold")
        ELSE IF seconds = ValueError
        THEN AutoOutcome(threshold, registered, cbs, "must be a number")
        ELSE IF Lt(seconds, Num(0))
        THEN AutoOutcome(threshold, registered, cbs, "cannot be negative")
        ELSE IF Gt(seconds, Num(0))
        THEN auto_enable(seconds, registered, cbs)
        ELSE auto_disable(seconds, registered, cbs)

\* A variant that returns nothing.
notify_returns_none(result) == "None"

\* notify, line 253: the value the magic returns.
notify_returns(result) == result.result

\* A variant without the finally clause.
notify_no_finally(suppress) == suppress

\* notify, lines 246-247: the flag after the finally clause.
notify_finally(suppress) == FALSE

\* ------------------------------------------------------------ the host
\* One run_cell call in progress.
\*   pc       "exec": before-unit event fired, body not yet run
\*            "notify_call": the body is %%notify, about to call run_cell
\*            "post": the body has ended, after-unit event not yet fired
\*            "done": after-unit event fired, run_cell about to return
\*   kind     what the body was: "code", "auto", "setup", "notify"
\*   begin    the clock at the before-unit event
\*   result   the ExecutionResult of this cell
\*   line     the argument of the magic the body called
\*   mode, n_start   notify's locals mode and start_time
\*   inner    the kind of the cell notify wrapped
\*   n_notify, n_watchdog   notifications dispatched while this cell ran,
\*            by notify calls and by post_run_cell_hook
NewFrame(clock) ==
    [pc |-> "exec", kind |-> "none", begin |-> clock, result |-> NoResult,
     line |-> <<>>, mode |-> "none", n_start |-> 0, inner |-> "none", n_notify |-> 0,
     n_watchdog |-> 0]

Top == stack[Len(stack)]

SetTop(st, f) == [st EXCEPT ![Len(st)] = f]

Pop(st) == SubSeq(st, 1, Len(st) - 1)

\* Count n dispatches of a notification on every cell in progress.
Counted(st, tag, n) ==
    [i \in DOMAIN st |->
        IF tag = "watchdog"
        THEN [st[i] EXCEPT !.n_watchdog = @ + n]
        ELSE [st[i] EXCEPT !.n_notify = @ + n]]

Init ==
    /\ watchdog_threshold = Num(0)
    /\ start_time = 0
    /\ hooks_registered = FALSE
    /\ suppress_auto_watchdog = FALSE
    /\ webhook_url \in EnvValues
    /\ callbacks = [pre_run_cell |-> 0, post_run_cell |-> 0]
    /\ now = Epoch
    /\ stack = <<>>
    /\ threads = EmptyBag
    /\ dispatched = NoNote
    /\ printed = ""
    /\ posted = NoPost

\* pre_run_cell_hook, line 156.
pre_run_cell_hook(clock) == clock

\* The host starts a cell: the user runs one (here: while at most cap
\* background sends of earlier cells are in flight), or notify calls
\* shell.run_cell (line 245), up to depth cells inside one another.  The
\* before-unit event calls every registered pre_run_cell callback.
start_cell(cap, depth) ==
    /\ main_thread_runs
    /\ Len(stack) < depth
    /\ \/ stack = <<>> /\ BagCardinality(threads) <= cap
       \/ stack # <<>> /\ Top.pc = "notify_call"
    /\ stack' = Append(stack, NewFrame(now))
    /\ start_time' = IF callbacks.pre_run_cell > 0
                     THEN pre_run_cell_hook(now) ELSE start_time
    /\ dispatched' = NoNote
    /\ printed' = ""
    /\ posted' = NoPost
    /\ UNCHANGED << watchdog_threshold, hooks_registered,
                    suppress_auto_watchdog, webhook_url, callbacks, now,
                    threads >>

\* The user runs the next cell once the sends of the cell before have ended.
run_cell == start_cell(0, MaxDepth)

\* The body of the cell is plain code that takes d ticks.
code_body(durations, results) ==
    /\ main_thread_runs
    /\ stack # <<>> /\ Top.pc = "exec"
    /\ \E d \in durations, r \in results :
        /\ now + d <= MaxTime
        /\ now' = now + d
        /\ stack' = SetTop(stack, [Top EXCEPT !.kind = "code", !.result = r,
                                              !.pc = "post"])
    /\ dispatched' = NoNote
    /\ printed' = ""
    /\ posted' = NoPost
    /\ UNCHANGED << session, threads >>

\* Plain code of any duration and with any result.
exec_code == code_body(0..MaxDur, CodeResults)

\* The body of the cell is %watchdog_auto <line>.
auto_body(lines) ==
    /\ main_thread_runs
    /\ stack # <<>> /\ Top.pc = "exec"
    /\ \E line \in lines :
        LET after == watchdog_auto(line, watchdog_threshold, hooks_registered,
                                   callbacks)
        IN  /\ watchdog_threshold' = after.threshold
            /\ hooks_registered' = after.registered
            /\ callbacks' = after.callbacks
            /\ printed' = after.printed
            /\ stack' = SetTop(stack,
                               [Top EXCEPT !.kind = "auto",
                                           !.line = line,
                                           !.result = Result(TRUE, "none", "None"),
                                           !.pc = "post"])
    /\ dispatched' = NoNote
    /\ posted' = NoPost
    /\ UNCHANGED << start_time, suppress_auto_watchdog, webhook_url, now,
                    threads >>

\* %watchdog_auto with any of the arguments.
exec_watchdog_auto == auto_body(AutoLines)

\* The body of the cell is %watchdog_setup <line>.
setup_body(lines) ==
    /\ main_thread_runs
    /\ stack # <<>> /\ Top.pc = "exec"
    /\ \E line \in lines :
        /\ webhook_url' = watchdog_setup_url(line, webhook_url)
        /\ printed' = watchdog_setup_prints(line)
        /\ stack' = SetTop(stack,
                           [Top EXCEPT !.kind = "setup",
                                       !.line = line,
                                       !.result = Result(TRUE, "none", "None"),
                                       !.pc = "post"])
    /\ dispatched' = NoNote
    /\ posted' = NoPost
    /\ UNCHANGED << watchdog_threshold, start_time, hooks_registered,
                    suppress_auto_watchdog, callbacks, now, threads >>

\* %watchdog_setup with any of the arguments.
exec_watchdog_setup == setup_body(SetupLines)

\* The body of the cell is %%notify <line>: lines 233-243, up to the call
\* of shell.run_cell.
notify_body(lines, depth) ==
    /\ main_thread_runs
    /\ stack # <<>> /\ Top.pc = "exec"
    /\ Len(stack) < depth
    /\ \E line \in lines :
        /\ stack' = SetTop(stack, [Top EXCEPT !.kind = "notify",
                                              !.line = line,
                                              !.mode = notify_mode(line),
                                              !.n_start = now,
                                              !.pc = "notify_call"])
        /\ printed' = IF notify_warns(line) THEN "unknown argument" ELSE ""
    /\ suppress_auto_watchdog' = TRUE
    /\ dispatched' = NoNote
    /\ posted' = NoPost
    /\ UNCHANGED << watchdog_threshold, start_time, hooks_registered,
                    webhook_url, callbacks, now, threads >>

\* %%notify with any of the arguments.
notify_enter == notify_body(NotifyLines, MaxDepth)

\* shell.run_cell raises inside notify: the finally clause runs, nothing is
\* dispatched, and the exception ends the %%notify cell.
notify_raise ==
    /\ main_thread_runs
    /\ stack # <<>> /\ Top.pc = "notify_call"
    /\ suppress_auto_watchdog' = notify_finally(suppress_auto_watchdog)
    /\ stack' = SetTop(stack, [Top EXCEPT !.result = Result(FALSE, "exc", "None"),
                                          !.pc = "post"])
    /\ dispatched' = NoNote
    /\ printed' = ""
    /\ posted' = NoPost
    /\ UNCHANGED << watchdog_threshold, start_time, hooks_registered,
                    webhook_url, callbacks, now, threads >>

\* post_run_cell_hook, lines 158-167: the notification one call of the
\* hook dispatches, NoNote if none.
post_run_cell_hook(result) ==
    IF post_hook_fires(watchdog_threshold, suppress_auto_watchdog, now,
                       start_time)
    THEN handle_notification(result, now - start_time, "watchdog", webhook_url)
    ELSE NoNote

\* The after-unit event of the innermost cell: every registered
\* post_run_cell callback is called with the cell's result.
trigger_post_run_cell ==
    /\ main_thread_runs
    /\ stack # <<>> /\ Top.pc = "post"
    /\ LET note == post_run_cell_hook(Top.result)
           n == IF note # NoNote THEN callbacks.post_run_cell ELSE 0
       IN  /\ dispatched' = IF n > 0 THEN note ELSE NoNote
           /\ threads' = threads (+) Copies(Thread(note), n * note.started)
           /\ stack' = Counted(SetTop(stack, [Top EXCEPT !.pc = "done"]),
                               "watchdog", n)
    /\ printed' = ""
    /\ posted' = NoPost
    /\ UNCHANGED << session, now >>

\* shell.run_cell returns to notify, which finishes: lines 246-253.
notify_finish ==
    /\ main_thread_runs
    /\ Len(stack) >= 2 /\ Top.pc = "done"
    /\ LET child == Top
           caller == stack[Len(stack) - 1]
           note == handle_notification(child.result, now - caller.n_start,
                                       caller.mode, webhook_url)
       IN  /\ caller.pc = "notify_call"
           /\ suppress_auto_watchdog' = notify_finally(suppress_auto_watchdog)
           /\ dispatched' = note
           /\ threads' = threads (+) Copies(Thread(note), note.started)
           /\ stack' = Counted(
                  SetTop(Pop(stack),
                         [caller EXCEPT
                             !.result = Result(TRUE, "none",
                                               notify_returns(child.result)),
                             !.inner = child.kind,
                             !.pc = "post"]),
                  caller.mode, 1)
    /\ printed' = ""
    /\ posted' = NoPost
    /\ UNCHANGED << watchdog_threshold, start_time, hooks_registered,
                    webhook_url, callbacks, now >>

\* The outermost run_cell returns to the user.
run_cell_return ==
    /\ main_thread_runs
    /\ Len(stack) = 1 /\ Top.pc = "done"
    /\ stack' = <<>>
    /\ dispatched' = NoNote
    /\ printed' = ""
    /\ posted' = NoPost
    /\ UNCHANGED << session, now, threads >>

\* A background thread runs request_task (lines 107-113): one POST, whose
\* failure is logged, and the thread ends.
request_task ==
    /\ \E t \in BagToSet(threads), response \in Responses :
        /\ posted' = post(t, webhook_url, response)
        /\ threads' = request_task_ends(threads, t, response)
    /\ UNCHANGED << session, now, stack, dispatched, printed >>

Next ==
    \/ run_cell
    \/ exec_code
    \/ exec_watchdog_auto
    \/ exec_watchdog_setup
    \/ notify_enter
    \/ notify_raise
    \/ trigger_post_run_cell
    \/ notify_finish
    \/ run_cell_return
    \/ request_task

Spec == Init /\ [][Next]_vars

\* ------------------------------------- cells run while sends are in flight
\* The user goes on running cells while up to MaxSends background sends of
\* earlier cells have not ended; nothing makes a send end.  The cells are
\* code that succeeds, %watchdog_auto 1, %watchdog_setup with a
\* URL, and %%notify discord around another cell.
SendInit == Init /\ Truthy(webhook_url)

run_cell_sending == start_cell(MaxSends, MaxDepth)

sending_code ==
    code_body({0, MaxDur}, { Result(TRUE, "none", "v") })

sending_watchdog_auto == auto_body({ <<"1">> })

sending_watchdog_setup ==
    setup_body({ <<" ", "h", "t", "t", "p", "s", ":", "/", "/", "x", " ">> })

sending_notify_enter ==
    notify_body({ <<" ", "D", "i", "s", "c", "o", "r", "d", " ">> }, MaxDepth)

\* The steps of the main thread.
MainNext ==
    \/ run_cell_sending
    \/ sending_code
    \/ sending_watchdog_auto
    \/ sending_watchdog_setup
    \/ sending_notify_enter
    \/ trigger_post_run_cell
    \/ notify_finish
    \/ run_cell_return

SendNext ==
    \/ MainNext
    \/ request_task

SpecSend == SendInit /\ [][SendNext]_vars

\* --------------------------------------------- %%notify inside %%notify
\* The cell %%notify wraps may itself be a %%notify cell: one level of
\* nesting more than the other specifications allow.  The innermost cells
\* are code that succeeds or raises.
run_cell_nested == start_cell(0, MaxDepth + 1)

nested_notify_enter ==
    notify_body({ <<>>, <<" ", "D", "i", "s", "c", "o", "r", "d", " ">> },
                MaxDepth + 1)

nested_code ==
    code_body({0, MaxDur},
              { Result(TRUE, "none", "v"), Result(FALSE, "exc", "None") })

NestedNext ==
    \/ run_cell_nested
    \/ nested_notify_enter
    \/ nested_code
    \/ notify_raise
    \/ trigger_post_run_cell
    \/ notify_finish
    \/ run_cell_return
    \/ request_task

SpecNested == Init /\ [][NestedNext]_vars

\* ------------------------------------------- the hook, called on its own
\* A harness has run a unit and calls post_run_cell_hook(result) itself, in
\* any state of the object's fields, whether or not the hook is registered
\* with the host.
HookInit ==
    /\ watchdog_threshold \in { Num(0), Num(1), Num(2), NaN }
    /\ hooks_registered = Gt(watchdog_threshold, Num(0))
    /\ callbacks = IF hooks_registered
                   THEN [pre_run_cell |-> 1, post_run_cell |-> 1]
                   ELSE [pre_run_cell |-> 0, post_run_cell |-> 0]
    /\ suppress_auto_watchdog \in BOOLEAN
    /\ webhook_url \in EnvValues
    /\ now \in Epoch..MaxTime
    /\ start_time \in {0} \cup Epoch..now
    /\ \E r \in CodeResults :
        stack = << [NewFrame(now) EXCEPT !.kind = "code", !.result = r,
                                         !.pc = "post"] >>
    /\ threads = EmptyBag
    /\ dispatched = NoNote
    /\ printed = ""
    /\ posted = NoPost

call_post_run_cell_hook ==
    /\ main_thread_runs
    /\ Len(stack) = 1 /\ Top.pc = "post"
    /\ LET note == post_run_cell_hook(Top.result)
       IN  /\ dispatched' = note
           /\ threads' = threads (+) Copies(Thread(note), note.started)
    /\ stack' = SetTop(stack, [Top EXCEPT !.pc = "done"])
    /\ printed' = ""
    /\ posted' = NoPost
    /\ UNCHANGED << session, now >>

HookNext ==
    \/ call_post_run_cell_hook
    \/ request_task

SpecHook == HookInit /\ [][HookNext]_vars

\* ------------------------------------------------------------------ claims
Running == stack # <<>>

Enabled == Gt(watchdog_threshold, Num(0))

\* A step of the main thread (request_task leaves the stack alone).
MainStep == stack' # stack

\* C1: with the watchdog enabled at threshold t, the after-unit event of a
\* unit dispatches a 'watchdog' notification iff the unit's own duration d,
\* from its before-unit event to its after-unit event, satisfies d > t.
C1_WatchdogIffOverThreshold ==
    (Running /\ Top.pc = "done" /\ Enabled)
        => ((dispatched.tag = "watchdog")
                <=> Gt(Num(now - Top.begin), watchdog_threshold))

\* C2: with the watchdog enabled, a cell run through %%notify whose wrapped
\* unit is plain code ends with exactly one notification dispatched, the one
\* tagged by notify's mode, and none tagged 'watchdog'.
C2_NotifyCellDispatchesOnce ==
    (Running /\ Top.pc = "done" /\ Top.kind = "notify" /\ Top.inner = "code"
        /\ Enabled)
        => (Top.n_notify = 1 /\ Top.n_watchdog = 0)

\* A notify call exits in this step: normally or by the exception of
\* shell.run_cell.
NotifyExits ==
    \E i \in DOMAIN stack :
        /\ stack[i].pc = "notify_call"
        /\ i \in DOMAIN stack'
        /\ stack'[i].pc = "post"

\* A unit of plain code run by the user, with the watchdog enabled, that
\* took longer than the threshold has dispatched a 'watchdog' notification.
LaterUnitFires ==
    (Len(stack) = 1 /\ Top.pc = "done" /\ Top.kind = "code" /\ Enabled
        /\ Gt(Num(now - Top.begin), watchdog_threshold))
        => dispatched.tag = "watchdog"

\* C3: _suppress_auto_watchdog is False in the state every exit of notify
\* leaves (wrapped unit succeeded, failed, or shell.run_cell raised), so a
\* later unit over the threshold still dispatches a watchdog notification.
C3_SuppressClearedOnNotifyExit ==
    /\ [][NotifyExits => ~suppress_auto_watchdog']_vars
    /\ []((\A i \in DOMAIN stack : stack[i].pc # "notify_call")
            => ~suppress_auto_watchdog)
    /\ []LaterUnitFires

\* shell.run_cell raised inside notify, with the watchdog enabled, and the
\* flag is down.
C3_Witness_RaisedExit ==
    /\ Running /\ Top.kind = "notify" /\ Top.pc = "post"
    /\ ~Top.result.success
    /\ Enabled
    /\ ~suppress_auto_watchdog

\* C4: a dispatch starts a webhook thread iff a URL is configured (not None,
\* not empty) and the tag is 'discord' or 'watchdog'; no other step of the
\* main thread starts one.
C4_SendIffUrlAndTag ==
    [][MainStep =>
        BagCardinality(threads') - BagCardinality(threads)
            = IF /\ dispatched' # NoNote
                 /\ Truthy(webhook_url)
                 /\ dispatched'.tag \in {"discord", "watchdog"}
              THEN 1 ELSE 0]_vars

\* A 'system' notification was dispatched with a URL configured and no
\* thread was started.
C4_Witness_SystemWithUrl ==
    /\ dispatched.tag = "system"
    /\ Truthy(webhook_url)
    /\ threads = EmptyBag

\* C5: _hooks_registered is True iff watchdog_threshold > 0.
C5_HooksRegisteredIffEnabled ==
    hooks_registered <=> Gt(watchdog_threshold, Num(0))

\* The watchdog was enabled and has just been disabled.
C5_Witness_Disabled ==
    /\ printed = "disabled"
    /\ ~hooks_registered
    /\ watchdog_threshold = Num(0)

\* C6: a call of post_run_cell_hook with watchdog_threshold <= 0 or with
\* _suppress_auto_watchdog set dispatches nothing, starts no thread and
\* changes no field, whatever now - start_time is.
C6_HookNoOp ==
    [][(/\ Running /\ Top.pc = "post" /\ MainStep
        /\ Le(watchdog_threshold, Num(0)) \/ suppress_auto_watchdog)
        => (/\ dispatched' = NoNote
            /\ threads' = threads
            /\ UNCHANGED session)]_vars

\* The hook has returned without a dispatch, with the threshold at 0 and
\* now - start_time at its largest (start_time never set).
C6_Witness_DisabledLongElapsed ==
    /\ Running /\ Top.pc = "done"
    /\ Le(watchdog_threshold, Num(0))
    /\ start_time = 0
    /\ dispatched = NoNote

\* C7: watchdog_auto rejects what is not a number or is negative, hence
\* watchdog_threshold is a non-negative number in every reachable state.
C7_ThresholdNonNegative ==
    Le(Num(0), watchdog_threshold)

\* C8: when shell.run_cell returns a result to notify, notify dispatches
\* exactly one notification, tagged by its mode and carrying the unit's
\* success flag, and the cell's value is the wrapped unit's result.result,
\* whether or not the watchdog is enabled.
C8_NotifyDispatchesAndReturns ==
    [][(Len(stack) >= 2 /\ Top.pc = "done" /\ MainStep)
        => LET caller == stack[Len(stack) - 1]
               after == stack'[Len(stack) - 1]
           IN  /\ dispatched' # NoNote
               /\ dispatched'.tag = caller.mode
               /\ dispatched'.success = Top.result.success
               /\ dispatched'.duration = now - caller.n_start
               /\ after.n_notify = caller.n_notify + 1
               /\ after.n_watchdog = caller.n_watchdog
               /\ after.result.result = Top.result.result]_vars

\* notify has finished around a unit that failed, with the watchdog
\* disabled.
C8_Witness_FailedUnitDisabled ==
    /\ Running /\ Top.kind = "notify" /\ Top.pc = "post"
    /\ dispatched # NoNote
    /\ dispatched.tag = Top.mode
    /\ ~dispatched.success
    /\ ~hooks_registered

ArgDiscord == <<" ", "D", "i", "s", "c", "o", "r", "d", " ">>

ArgWatchdog == <<"w", "a", "t", "c", "h", "d", "o", "g">>

\* C9: notify's tag is 'discord' for the argument 'discord' (trimmed, any
\* case) and 'system' for everything else; only an argument that is neither
\* empty, 'system' nor 'discord' prints the warning; a notify call with any
\* argument but 'discord' starts no webhook thread.
C9_NotifyModeMapping ==
    (Running /\ Top.kind = "notify")
        => /\ Top.mode \in {"system", "discord"}
           /\ Top.mode = "discord" <=> Top.line = ArgDiscord
           /\ Top.pc = "notify_call"
                => (printed = "unknown argument" <=> Top.line = ArgWatchdog)
           /\ (Top.pc = "post" /\ dispatched # NoNote)
                => /\ dispatched.tag = Top.mode
                   /\ Top.line # ArgDiscord => dispatched.started = 0

\* %%notify watchdog has finished with a URL configured: the notification
\* is tagged 'system' and no thread was started.
C9_Witness_WatchdogArgument ==
    /\ Running /\ Top.kind = "notify" /\ Top.pc = "post"
    /\ Top.line = ArgWatchdog
    /\ Truthy(webhook_url)
    /\ dispatched.tag = "system"
    /\ dispatched.started = 0

\* The check the error message of watchdog_setup states.
HttpUrl(url) ==
    \/ startswith(url, <<"h", "t", "t", "p", ":", "/", "/">>)
    \/ startswith(url, <<"h", "t", "t", "p", "s", ":", "/", "/">>)

\* C10: watchdog_setup stores its trimmed input iff that is non-empty and
\* starts with 'http://' or 'https://', and otherwise leaves the stored URL
\* unchanged.
C10_SetupStoresOnlyHttpUrls ==
    [][(/\ Running /\ Top.pc = "exec" /\ MainStep
        /\ stack'[Len(stack)].kind = "setup")
        => LET url == strip(stack'[Len(stack)].line)
           IN  webhook_url' = IF url # <<>> /\ HttpUrl(url)
                              THEN Str(url) ELSE webhook_url]_vars

\* watchdog_auto runs in this step with an argument that parses to 0.
AutoZeroStep ==
    /\ Running /\ Top.pc = "exec" /\ MainStep
    /\ stack'[Len(stack)].kind = "auto"
    /\ ParseFloat(strip(stack'[Len(stack)].line)) = Num(0)

\* C11: once the watchdog is disabled (threshold 0, hooks not registered),
\* every further 'watchdog_auto 0' leaves the session state and the host's
\* registrations as they were, and prints 'already disabled'.
C11_DisableIdempotent ==
    [][(AutoZeroStep /\ ~hooks_registered /\ watchdog_threshold = Num(0))
        => (UNCHANGED session /\ printed' = "already disabled")]_vars

\* 'watchdog_auto 0' has answered 'already disabled' in a session whose
\* pre_run_cell_hook has run: the watchdog was enabled, then disabled.
C11_Witness_DisabledAgain ==
    /\ Running /\ Top.kind = "auto" /\ Top.pc = "post"
    /\ printed = "already disabled"
    /\ start_time # 0
    /\ ~hooks_registered /\ watchdog_threshold = Num(0)
    /\ callbacks = [pre_run_cell |-> 0, post_run_cell |-> 0]

\* The main thread is scheduled whenever it can take a step; no background
\* send is ever required to end.
SpecSendFair == SpecSend /\ WF_vars(MainNext)

\* C12: the main thread never waits for a background send.  In every state
\* with a cell in progress, whatever sends are in flight, the main thread
\* has a step to take (the dispatch that started a send has already
\* returned), and every cell in progress runs to its end even if no send
\* ever ends.
C12_SendNeverDelays ==
    /\ [](Running => ENABLED MainNext)
    /\ (Running ~> ~Running)

\* A %watchdog_setup cell the user ran has ended while a send started by an
\* earlier cell is still in flight.
C12_Witness_CommandDuringSend ==
    /\ Len(stack) = 1 /\ Top.kind = "setup" /\ Top.pc = "done"
    /\ threads # EmptyBag

\* A background thread makes its POST in this step.
WorkerStep == posted' # NoPost

\* C13: one notification starts at most one background send, and a send
\* makes one POST attempt whatever its outcome: a failed attempt (no
\* response, or a non-2xx status) is logged and the thread ends, with no
\* second attempt, nothing raised in the main thread and no session state
\* changed.
C13_OneAttemptFailureLogged ==
    /\ [][MainStep
            => BagCardinality(threads') - BagCardinality(threads)
                    <= (IF dispatched' # NoNote THEN 1 ELSE 0)]_vars
    /\ [][WorkerStep
            => /\ BagCardinality(threads') = BagCardinality(threads) - 1
               /\ posted'.logged <=> posted'.response # "2xx"
               /\ UNCHANGED << session, stack, dispatched, printed, now >>]_vars

\* A POST has failed and been logged, and no send is left in flight while
\* the cell that dispatched it goes on.
C13_Witness_FailedPostLogged ==
    /\ posted # NoPost /\ posted.response = "network error" /\ posted.logged
    /\ threads = EmptyBag
    /\ Running /\ dispatched # NoNote /\ dispatched.started = 1

\* C14: a background send posts the URL and the message its notification
\* was dispatched with.  The thread a dispatch starts carries the URL stored
\* at that moment and the message just built; the POST, whenever it runs
\* and whatever watchdog_setup has stored since, goes to the thread's own
\* URL with its own message; and the thread changes no session state.
C14_PostUsesDispatchTimeUrl ==
    /\ [][(MainStep /\ threads' # threads)
            => \E n \in 1..2 :
                threads' = threads (+) Copies([url |-> webhook_url.s,
                                               message |-> dispatched'.lines],
                                              n)]_vars
    /\ [][WorkerStep
            => /\ \E t \in BagToSet(threads) :
                    /\ posted'.url = t.url
                    /\ posted'.message = t.message
                    /\ threads' = threads (-) SetToBag({t})
               /\ UNCHANGED session]_vars

\* A POST has gone to a URL that is no longer the stored one:
\* watchdog_setup ran between the dispatch and the POST.
C14_Witness_UrlChangedBeforePost ==
    /\ posted # NoPost
    /\ Truthy(webhook_url)
    /\ posted.url # webhook_url.s

\* C15: whenever post_run_cell_hook computes an elapsed time (the hook is
\* registered, the threshold is > 0 and _suppress_auto_watchdog is False),
\* start_time is the timestamp pre_run_cell_hook recorded at the before-unit
\* event of the unit that is ending, never the initial 0 or an older value.
C15_StartTimeOfSameUnit ==
    (/\ Running /\ Top.pc = "post"
     /\ callbacks.post_run_cell > 0
     /\ Enabled /\ ~suppress_auto_watchdog)
        => start_time = Top.begin

\* A notify call is between the assignment of line 243 and its finally
\* clause: its wrapped unit is about to start, running, or just ended.
NotifyInProgress == \E i \in DOMAIN stack : stack[i].pc = "notify_call"

\* C16: _suppress_auto_watchdog is True exactly while a notify-wrapped unit
\* is executing, for every sequence of notify calls, a notify invoked from
\* inside a notify-wrapped unit included.
C16_SuppressIffNotifyRunning == suppress_auto_watchdog <=> NotifyInProgress

\* C17: the two hooks are registered and unregistered together and never
\* more than once: each has one registration with the host when
\* _hooks_registered is True and none when it is False; watchdog_auto with
\* seconds > 0 in an enabled session stores the threshold and registers
\* nothing.
C17_HooksRegisteredOnce ==
    /\ [](callbacks = IF hooks_registered
                      THEN [pre_run_cell |-> 1, post_run_cell |-> 1]
                      ELSE [pre_run_cell |-> 0, post_run_cell |-> 0])
    /\ [][(/\ Running /\ Top.pc = "exec" /\ MainStep
           /\ stack'[Len(stack)].kind = "auto"
           /\ Gt(ParseFloat(strip(stack'[Len(stack)].line)), Num(0))
           /\ hooks_registered)
            => /\ watchdog_threshold'
                    = ParseFloat(strip(stack'[Len(stack)].line))
               /\ printed' = "threshold updated"
               /\ UNCHANGED << callbacks, hooks_registered, start_time,
                               suppress_auto_watchdog, webhook_url >>]_vars

\* watchdog_auto with seconds > 0 has run in an enabled session: the
\* threshold is the new one and each hook still has one registration.
C17_Witness_ThresholdUpdated ==
    /\ Running /\ Top.kind = "auto" /\ Top.pc = "post"
    /\ printed = "threshold updated"
    /\ watchdog_threshold = Num(2)
    /\ hooks_registered
    /\ callbacks = [pre_run_cell |-> 1, post_run_cell |-> 1]

\* C18: every dispatch, whatever its tag and whether or not a URL is
\* stored, shows the banner once and the browser notification once and
\* ends without raising; its message is the status line and the time line,
\* followed by an error line iff the unit failed and its result carries an
\* error value ('Unknown Error' if that value cannot be rendered).
C18_BannerBrowserAndLines ==
    [][(MainStep /\ dispatched' # NoNote)
        => LET result == Top.result
               lines == dispatched'.lines
               failed == ~result.success /\ result.error_in_exec # "none"
           IN  /\ dispatched'.banner = 1
               /\ dispatched'.browser = 1
               /\ Len(lines) = IF failed THEN 3 ELSE 2
               /\ lines[1] = [f |-> "Status",
                              x |-> IF result.success THEN "Success"
                                    ELSE "Failure"]
               /\ lines[2] = [f |-> "Time", x |-> dispatched'.duration]
               /\ failed => lines[3].f = "Error"
               /\ Len(stack') >= 1]_vars

\* A failed unit whose error value cannot be rendered has been dispatched
\* with no URL stored: three lines, the third 'Unknown Error'.
C18_Witness_UnknownError ==
    /\ dispatched # NoNote
    /\ ~Truthy(webhook_url)
    /\ ~dispatched.success
    /\ Len(dispatched.lines) = 3
    /\ dispatched.lines[3] = [f |-> "Error", x |-> "Unknown Error"]
    /\ dispatched.banner = 1 /\ dispatched.browser = 1

\* A line command runs in this step, as the body of the innermost cell.
CommandStep(kind) ==
    /\ Running /\ Top.pc = "exec" /\ MainStep
    /\ stack'[Len(stack)].kind = kind

\* C19: watchdog_auto and watchdog_setup with an empty argument change
\* nothing: the five session fields and the host's registrations stay as
\* they were and the current value or the usage line is shown.
\* watchdog_setup with any argument leaves the threshold, _hooks_registered,
\* _suppress_auto_watchdog, start_time and the registrations alone;
\* watchdog_auto with any argument leaves the webhook URL alone.
C19_QueriesAndFrames ==
    /\ [][(CommandStep("auto") /\ strip(stack'[Len(stack)].line) = <<>>)
            => (UNCHANGED session /\ printed' = "current threshold")]_vars
    /\ [][(CommandStep("setup") /\ strip(stack'[Len(stack)].line) = <<>>)
            => (UNCHANGED session /\ printed' = "usage")]_vars
    /\ [][CommandStep("setup")
            => UNCHANGED << watchdog_threshold, hooks_registered,
                            suppress_auto_watchdog, start_time,
                            callbacks >>]_vars
    /\ [][CommandStep("auto")
            => UNCHANGED << webhook_url, start_time,
                            suppress_auto_watchdog >>]_vars

\* %watchdog_setup with no argument has printed the usage line in an
\* enabled session with a URL stored, inside a notify-wrapped unit.
C19_Witness_EmptySetupQuery ==
    /\ Running /\ Top.kind = "setup" /\ Top.pc = "post"
    /\ Top.line = <<>>
    /\ printed = "usage"
    /\ Truthy(webhook_url)
    /\ hooks_registered /\ suppress_auto_watchdog

====
